---- MODULE Spec2Model ----
(***************************************************************************)
(* A model of webtk's Sketch export pipeline (src/src/service/sketch/      *)
(* sketch_export.rs) and of the helpers it relies on (src/src/support/).   *)
(*                                                                         *)
(* Strings are sequences of tokens.  In artboard names and in the inputs   *)
(* of canonicalize_name a token is one character; in filesystem paths a    *)
(* token is a path fragment ("out", "/", ".cache", "-symbols", ".svg") so  *)
(* that substring tests are tests on contiguous token runs.                *)
(***************************************************************************)
EXTENDS Naturals, Sequences, FiniteSets, TLC

VARIABLES
    calls,      \* per export call: its inputs, locals, position and result
    dirs,       \* filesystem: the set of existing directories (paths)
    files,      \* filesystem: file path -> content, for the existing files
    oplog,      \* history of the effects of the calls, in order
    cn_pc, cn_in, cn_out, cn_out2,   \* canonicalize_name applied to an input
    sp_pc, sp_in, sp_out,            \* build_svg_symbols_file applied to a list
    xm_pc, xm_fn, xm_in, xm_out,     \* transform_nodes_id_attributes applied to nodes
    cv_pc, cv_in, cv_id, cv_out      \* convert_svg_to_symbol applied to a document

export_vars == <<calls, dirs, files, oplog>>
cn_vars == <<cn_pc, cn_in, cn_out, cn_out2>>
sp_vars == <<sp_pc, sp_in, sp_out>>
xm_vars == <<xm_pc, xm_fn, xm_in, xm_out>>
cv_vars == <<cv_pc, cv_in, cv_id, cv_out>>
vars == <<calls, dirs, files, oplog, cn_pc, cn_in, cn_out, cn_out2, sp_pc, sp_in, sp_out,
          xm_pc, xm_fn, xm_in, xm_out, cv_pc, cv_in, cv_id, cv_out>>

\* ------------------------------------------------------------------ bounds

\* longest input string of canonicalize_name that is enumerated
MaxLen == 4
\* longest symbol list given to build_svg_symbols_file
MaxSymbols == 3
\* most artboards in the design file
MaxArtboards == 2
\* longest requested format list
MaxFormats == 2

\* ------------------------------------------------------------ sequences

SeqsUpTo(S, n) == UNION {[1..k -> S] : k \in 0..n}

\* the injective sequences over S of length at most n
InjSeqsUpTo(S, n) ==
    {s \in SeqsUpTo(S, n) : \A i, j \in 1..Len(s) : i # j => s[i] # s[j]}

\* [from, to] of s (1-based, inclusive), empty when from > to
Slice(s, from, to) == [i \in 1..(IF to >= from THEN to - from + 1 ELSE 0) |-> s[from + i - 1]]

Last(s) == s[Len(s)]

\* ------------------------------------------- support/strings.rs

\* the characters the inputs of canonicalize_name are drawn from; "e'" stands
\* for a non-ASCII letter (char::is_ascii_alphanumeric is false for it)
Chars == {"a", "7", "-", "/", "e'"}

is_ascii_alphanumeric(ch) == ch \in {"a", "b", "c", "Z", "7"}

\* str::trim_matches(c): drop every leading and every trailing c
RECURSIVE trim_start_matches(_, _)
trim_start_matches(s, c) ==
    IF Len(s) > 0 /\ s[1] = c THEN trim_start_matches(Tail(s), c) ELSE s

RECURSIVE trim_end_matches(_, _)
trim_end_matches(s, c) ==
    IF Len(s) > 0 /\ Last(s) = c THEN trim_end_matches(Slice(s, 1, Len(s) - 1), c) ELSE s

trim_matches(s, c) == trim_end_matches(trim_start_matches(s, c), c)

\* the for loop of canonicalize_name, from character i on
RECURSIVE canonicalize_loop(_, _, _, _)
canonicalize_loop(name, i, result, prev_was_dash) ==
    IF i > Len(name) THEN result
    ELSE IF is_ascii_alphanumeric(name[i])
         THEN canonicalize_loop(name, i + 1, Append(result, name[i]), FALSE)
         ELSE IF ~prev_was_dash
              THEN canonicalize_loop(name, i + 1, Append(result, "-"), TRUE)
              ELSE canonicalize_loop(name, i + 1, result, prev_was_dash)

\* a slip: the final trim is left out
canonicalize_name_no_trim(name) == canonicalize_loop(name, 1, <<>>, FALSE)

\* a slip: the dashes are trimmed off the input instead of the result
canonicalize_name_trim_first(name) ==
    canonicalize_loop(trim_matches(name, "-"), 1, <<>>, FALSE)

canonicalize_name(name) == trim_matches(canonicalize_loop(name, 1, <<>>, FALSE), "-")

\* ------------------------------------- sketch_export.rs: the sprite text

\* The text of a sprite file is a sequence of items: the wrapper lines, line
\* feeds and the symbols (each symbol is one item, it holds no blank line:
\* convert_svg_to_symbol starts it with "  <symbol" and ends it with "</symbol>").
SvgOpen == [t |-> "<svg width=\"0\" height=\"0\" style=\"position:absolute\">"]
SvgClose == [t |-> "</svg>"]
NL == [t |-> "\n"]
SymbolItem(sym) == [t |-> "symbol", symbol |-> sym]

\* a slip: the blank line is written before every symbol, the first included
RECURSIVE build_symbols_loop_blank_first(_, _, _)
build_symbols_loop_blank_first(symbols, idx, result) ==
    IF idx >= Len(symbols) THEN result
    ELSE build_symbols_loop_blank_first(symbols, idx + 1,
            result \o <<NL>> \o <<SymbolItem(symbols[idx + 1]), NL>>)

\* the for loop of build_svg_symbols_file; idx is the 0-based enumerate() index
RECURSIVE build_symbols_loop(_, _, _)
build_symbols_loop(symbols, idx, result) ==
    IF idx >= Len(symbols) THEN result
    ELSE build_symbols_loop(symbols, idx + 1,
            result \o (IF idx > 0 THEN <<NL>> ELSE <<>>)
                   \o <<SymbolItem(symbols[idx + 1]), NL>>)

build_svg_symbols_file(symbols) ==
    build_symbols_loop(symbols, 0, <<SvgOpen, NL>>) \o <<SvgClose, NL>>

\* --------------------------------------------------------------- paths

\* SPath::join
Join(p, q) == IF p = <<>> THEN q ELSE p \o <<"/">> \o q

\* the index of the last "/" of p, 0 when there is none
LastSep(p) ==
    LET S == {k \in 1..Len(p) : p[k] = "/"}
    IN  IF S = {} THEN 0 ELSE CHOOSE k \in S : \A j \in S : j <= k

\* SPath::parent: the path without its last component
Parent(p) == Slice(p, 1, LastSep(p) - 1)

\* p and every directory above it
WithAncestors(p) ==
    {p} \cup {Slice(p, 1, k - 1) : k \in {j \in 1..Len(p) : p[j] = "/" /\ j > 1}}

\* q lies below the directory p
IsUnder(q, p) ==
    Len(q) > Len(p) + 1 /\ Slice(q, 1, Len(p)) = p /\ q[Len(p) + 1] = "/"

\* the extension a path fragment carries (SPath::ext gives it without the dot)
ExtOfToken(tok) ==
    CASE tok = ".svg" -> "svg"
      [] tok = ".SVG" -> "SVG"
      [] tok = ".png" -> "png"
      [] tok = ".PNG" -> "PNG"
      [] tok = ".jpeg" -> "jpeg"
      [] tok = ".txt" -> "txt"
      [] OTHER -> ""

\* SPath::ext: "" when the last component has no extension
Ext(p) == IF p = <<>> \/ Len(p) = LastSep(p) + 1 THEN "" ELSE ExtOfToken(Last(p))

\* str::to_lowercase on the extensions and format words of the model
to_lowercase(s) ==
    CASE s = "SVG" -> "svg"
      [] s = "PNG" -> "png"
      [] OTHER -> s

\* the path fragment "." ++ format appended to a rendered file's name
DotExt(format) ==
    CASE format = "svg" -> ".svg"
      [] format = "png" -> ".png"
      [] format = "jpeg" -> ".jpeg"
      [] OTHER -> ".out"

\* files.rs: looks_like_file_path
looks_like_file_path(path) == Ext(path) # ""

\* sketch_export.rs: is_single_file_output
is_single_file_output(output_path, formats) ==
    LET ext == Ext(output_path) IN
    IF ext = "" THEN FALSE
    ELSE \E i \in 1..Len(formats) : to_lowercase(formats[i]) = to_lowercase(ext)

\* the cache directory names of sketch_export.rs
CacheSymbolsName == <<".cache", "-symbols">>
CacheName == <<".cache">>
SymbolsFileName == <<"symbols", ".svg">>

\* ---------------------------------------------------------- filesystem

PathExists(ds, fs, p) == p \in ds \/ p \in DOMAIN fs

\* std::fs::create_dir_all can succeed: no file stands at the path or above it
CanCreateDirAll(fs, p) == WithAncestors(p) \cap DOMAIN fs = {}

\* the directories after create_dir_all(p)
CreateDirAll(ds, p) == ds \cup (WithAncestors(p) \ {<<>>})

\* a slip: the removal leaves the directories in place
RemoveDirsNoop(ds, p) == ds

\* the directories after std::fs::remove_dir_all(p)
RemoveDirs(ds, p) == {d \in ds : d # p /\ ~IsUnder(d, p)}

\* the files after std::fs::remove_dir_all(p)
RemoveFiles(fs, p) == [f \in {g \in DOMAIN fs : ~IsUnder(g, p)} |-> fs[f]]

\* the files after a whole-file write (std::fs::write, std::fs::copy)
WriteFile(fs, p, content) == (p :> content) @@ fs

\* the files of fs below the directory p that carry the extension of format
FilesWithExt(fs, p, format) ==
    {f \in DOMAIN fs : IsUnder(f, p) /\ Last(f) = DotExt(format)}

\* ------------------------------------------------------------ history

Event(op, proc, path, arg) == [op |-> op, proc |-> proc, path |-> path, arg |-> arg]
Log(log, op, proc, path, arg) == Append(log, Event(op, proc, path, arg))

\* ------------------------------------------------ artboards and renderings

\* the artboards a design file can hold: unique uid, hierarchical name (the
\* rendering tool writes one file per name, so the names of one design file
\* are distinct); the first two names canonicalize to the same id
ArtboardPool ==
    { [uid |-> "U1", name |-> <<"a", "/", "b">>],
      [uid |-> "U2", name |-> <<"a", "-", "b">>],
      [uid |-> "U3", name |-> <<"c">>] }

\* an XML node as xmltree holds it (XMLNode): kind is "element", "text",
\* "comment", "cdata" or "pi"; an element has an optional id attribute, one
\* other attribute (d) and its children; text is the characters of a node
\* that is not an element
Element(has_id, id, d, children) ==
    [kind |-> "element", has_id |-> has_id, id |-> id, d |-> d,
     children |-> children, text |-> <<>>]
Leaf(kind, text) ==
    [kind |-> kind, has_id |-> FALSE, id |-> <<>>, d |-> "",
     children |-> <<>>, text |-> text]
Text(text) == Leaf("text", text)
Comment(text) == Leaf("comment", text)
CData(text) == Leaf("cdata", text)
ProcessingInstruction(text) == Leaf("pi", text)

\* the content of a file, by what reading and parsing it gives: blank is
\* content.trim().is_empty(), parses is Element::parse(..).is_ok(), viewBox
\* is the root's attribute when present (a sequence of 0 or 1 values) and
\* children are the root's child nodes; uid and format say what the
\* rendering tool drew it from
Content(uid, format, blank, parses, viewBox, children) ==
    [uid |-> uid, format |-> format, blank |-> blank, parses |-> parses,
     viewBox |-> viewBox, children |-> children]

\* what the rendering tool can write for one artboard as SVG; "text-lt" is a
\* root whose only child is text that holds a '<' (written &lt; in the file,
\* which the parser gives back as the character)
RenderShapes ==
    {"ok", "blank", "unparseable", "no-viewbox", "self-closing", "text-only", "text-lt"}

\* the SVG the tool writes for an artboard: a title and a group whose id is the
\* artboard's name, around the artwork (its d names the artboard drawn)
RenderedSvg(ab, shape) ==
    LET artwork == <<Text(<<"t">>),
                     Element(TRUE, ab.name, "",
                             <<Element(TRUE, <<"Z", "/", "7">>, ab.uid, <<>>)>>)>>
    IN CASE shape = "ok" -> Content(ab.uid, "svg", FALSE, TRUE, <<"0 0 16 16">>, artwork)
         [] shape = "blank" -> Content(ab.uid, "svg", TRUE, FALSE, <<>>, <<>>)
         [] shape = "unparseable" -> Content(ab.uid, "svg", FALSE, FALSE, <<>>, <<>>)
         [] shape = "no-viewbox" -> Content(ab.uid, "svg", FALSE, TRUE, <<>>, artwork)
         [] shape = "self-closing" -> Content(ab.uid, "svg", FALSE, TRUE, <<"0 0 16 16">>, <<>>)
         [] shape = "text-only" ->
                Content(ab.uid, "svg", FALSE, TRUE, <<"0 0 16 16">>, <<Text(<<"t">>)>>)
         [] shape = "text-lt" ->
                Content(ab.uid, "svg", FALSE, TRUE, <<"0 0 16 16">>, <<Text(<<"<", ab.uid>>)>>)

\* a raster (or plain SVG) rendering, whose content the export never reads
RenderedFile(ab, format) ==
    IF format = "svg" THEN RenderedSvg(ab, "ok")
    ELSE Content(ab.uid, format, FALSE, FALSE, <<>>, <<>>)

\* ------------------------------------------------------- support/xmls.rs

\* Option<T> as a sequence of 0 or 1 values
None == <<>>
Some(v) == <<v>>

extract_root_attribute_viewBox(content) ==
    IF ~content.parses THEN None ELSE content.viewBox

extract_root_inner_nodes(content) ==
    IF ~content.parses THEN None ELSE Some(content.children)

\* str::replace('/', "-"), the closure of the test at xmls.rs line 211
replace_slash(id) == [i \in 1..Len(id) |-> IF id[i] = "/" THEN "-" ELSE id[i]]

\* the closures F: Fn(&str) -> String the transformation is called with, by
\* name, and the call of one
TransformFns == {"canonicalize_name", "replace_slash"}
call_transform_fn(transform_fn, id_value) ==
    IF transform_fn = "canonicalize_name" THEN canonicalize_name(id_value)
    ELSE replace_slash(id_value)

\* a slip: the children are not visited
transform_element_ids_shallow(element, transform_fn) ==
    IF element.has_id
    THEN [element EXCEPT !.id = call_transform_fn(transform_fn, element.id)]
    ELSE element

RECURSIVE transform_element_ids_recursive(_, _)
transform_element_ids_recursive(element, transform_fn) ==
    LET own == IF element.has_id
               THEN [element EXCEPT !.id = call_transform_fn(transform_fn, element.id)]
               ELSE element
    IN [own EXCEPT !.children =
            [i \in 1..Len(element.children) |->
                IF element.children[i].kind = "element"
                THEN transform_element_ids_recursive(element.children[i], transform_fn)
                ELSE element.children[i]]]

transform_nodes_id_attributes(nodes, transform_fn) ==
    [i \in 1..Len(nodes) |->
        IF nodes[i].kind = "element"
        THEN transform_element_ids_recursive(nodes[i], transform_fn)
        ELSE nodes[i]]

\* the text is whitespace only (str::trim().is_empty())
IsBlankText(text) == \A i \in 1..Len(text) : text[i] = " "

\* nodes_to_string(nodes).trim().is_empty(): an element, a comment, a CDATA
\* section and a processing instruction always serialize to markup; a text
\* node serializes to its characters
nodes_to_string_is_blank(nodes) ==
    \A i \in 1..Len(nodes) : nodes[i].kind = "text" /\ IsBlankText(nodes[i].text)

\* the number of '<' in the serialization of a node: an element without
\* children is written self-closed, one with children has two tags
RECURSIVE LtCount(_)
RECURSIVE LtCountAll(_, _)
LtCount(node) ==
    IF node.kind = "element"
    THEN (IF Len(node.children) = 0 THEN 1 ELSE 2) + LtCountAll(node.children, 1)
    ELSE (IF node.kind \in {"comment", "cdata", "pi"} THEN 1 ELSE 0)
         + Cardinality({i \in 1..Len(node.text) : node.text[i] = "<"})
LtCountAll(nodes, i) ==
    IF i > Len(nodes) THEN 0 ELSE LtCount(nodes[i]) + LtCountAll(nodes, i + 1)

\* ------------------------------------- sketch_export.rs: one symbol

\* base indentation indent_content is called with
BaseIndent == 4

\* the symbol element convert_svg_to_symbol formats: its id, its viewBox and,
\* as body, the inner nodes re-indented to the base indentation
Symbol(symbol_id, viewbox, nodes) ==
    [id |-> symbol_id, viewBox |-> viewbox, indent |-> BaseIndent, body |-> nodes]

\* a slip: inner content that renders blank is not refused (lines 198, 206)
convert_svg_to_symbol_no_blank_check(svg_content, symbol_id) ==
    LET viewbox == extract_root_attribute_viewBox(svg_content)
        inner_nodes == extract_root_inner_nodes(svg_content)
    IN  IF viewbox = None THEN None
        ELSE IF inner_nodes = None THEN None
        ELSE IF inner_nodes[1] = <<>> THEN None
        ELSE Some(Symbol(symbol_id, viewbox[1],
                         transform_nodes_id_attributes(inner_nodes[1], "canonicalize_name")))

\* Option<String>: None, or the symbol
convert_svg_to_symbol(svg_content, symbol_id) ==
    LET viewbox == extract_root_attribute_viewBox(svg_content)
        inner_nodes == extract_root_inner_nodes(svg_content)
    IN  IF viewbox = None THEN None
        ELSE IF inner_nodes = None THEN None
        ELSE IF inner_nodes[1] = <<>> THEN None
        ELSE LET transformed_nodes ==
                     transform_nodes_id_attributes(inner_nodes[1], "canonicalize_name")
             IN  IF nodes_to_string_is_blank(transformed_nodes) THEN None
                 ELSE Some(Symbol(symbol_id, viewbox[1], transformed_nodes))

\* symbol.matches('<').count(): the two symbol tags and the body's markup
SymbolLtCount(symbol) == 2 + LtCountAll(symbol.body, 1)

\* ------------------------------------------------ support/globs.rs

\* the glob patterns a caller can give, and the names each one matches
GlobPool == {"a*", "x*"}
glob_is_match(pattern, value) ==
    CASE pattern = "a*" -> Len(value) > 0 /\ value[1] = "a"
      [] pattern = "x*" -> Len(value) > 0 /\ value[1] = "x"
      [] OTHER -> FALSE

\* build_glob_set: no set for no patterns or an empty pattern list
build_glob_set(patterns) ==
    IF patterns = None \/ patterns[1] = {} THEN None ELSE Some(patterns[1])

\* matches_glob_set: true when no glob set is given
matches_glob_set(glob_set, value) ==
    glob_set = None \/ \E g \in glob_set[1] : glob_is_match(g, value)

\* ------------------------------------------------ service/sketch: listing

\* list_artboards(sketch_file, glob_patterns) when the tool's metadata listing
\* succeeds: the artboards of the design file whose name matches the globs
list_artboards(design, glob_patterns) ==
    LET glob_set == build_glob_set(glob_patterns)
        keep(ab) == matches_glob_set(glob_set, ab.name)
    IN  SelectSeq(design, keep)

\* ------------------------------------------------ the rendering tool

\* where the tool writes an artboard for a format (the artboard's name is the
\* relative path)
RenderPath(output_dir, ab, format) == Join(output_dir, ab.name \o <<DotExt(format)>>)

\* the ways one run of `sketchtool export artboards` can end.  status is
\* "spawn-failed" (Command::output is Err), "exit-failed" (non-zero exit) or
\* "ok"; for "ok", artboard number `at` (0: none) is rendered as `fault`:
\* "missing" (no file) or, for an SVG that is read back, a RenderShapes value
RenderOutcomes(artboards, inspected) ==
    {[status |-> "spawn-failed", at |-> 0, fault |-> "ok"],
     [status |-> "exit-failed", at |-> 0, fault |-> "ok"],
     [status |-> "ok", at |-> 0, fault |-> "ok"]}
    \cup {[status |-> "ok", at |-> k, fault |-> f] :
            k \in 1..Len(artboards),
            f \in {"missing"} \cup (IF inspected THEN RenderShapes \ {"ok"} ELSE {})}

\* what the history keeps of a run: --format, --items (the uids) and the
\* files it wrote
ToolRun(format, artboards, wrote) ==
    [format |-> format, items |-> [i \in 1..Len(artboards) |-> artboards[i].uid],
     wrote |-> wrote]

\* the files a successful run writes
RenderedFiles(artboards, format, output_dir, outcome) ==
    LET written == {i \in 1..Len(artboards) : ~(i = outcome.at /\ outcome.fault = "missing")}
        pathOf(i) == RenderPath(output_dir, artboards[i], format)
    IN  [path \in {pathOf(i) : i \in written} |->
            LET i == CHOOSE j \in written : pathOf(j) = path
            IN  IF i = outcome.at THEN RenderedSvg(artboards[i], outcome.fault)
                ELSE RenderedFile(artboards[i], format)]

\* the directories that exist after a successful run
RenderedDirs(ds, rendered) ==
    ds \cup UNION {WithAncestors(Parent(f)) \ {<<>>} : f \in DOMAIN rendered}

\* ------------------------------------------------ one export call

NoResult == [status |-> "running", err |-> "", files |-> <<>>]
Ok(paths) == [status |-> "ok", err |-> "", files |-> paths]
Err(kind) == [status |-> "err", err |-> kind, files |-> <<>>]

\* the state of a call of export_artboards before its first step
NewCall(design, sketch_file, glob_patterns, formats, output_path, ds, fs) ==
    [pc |-> "start",
     design |-> design, sketch_file |-> sketch_file, glob_patterns |-> glob_patterns,
     formats |-> formats, output_path |-> output_path,
     listed |-> FALSE, artboards |-> <<>>,
     has_svg_symbols |-> FALSE, regular_formats |-> <<>>,
     target_file |-> <<>>, cache_dir |-> <<>>, idx |-> 0, symbols |-> <<>>,
     single_file_output |-> FALSE, output_dir |-> <<>>, reg_cache_dir |-> None,
     fidx |-> 0, reg_exported |-> <<>>,
     exported_files |-> <<>>, result |-> NoResult,
     call_no |-> 1, caches |-> {}, dirs0 |-> ds, files0 |-> fs]

\* a slip: an error carries the paths exported so far
Return_partial(c, result) ==
    [c EXCEPT !.pc = "done", !.result = [result EXCEPT !.files = c.exported_files]]

Return(c, result) == [c EXCEPT !.pc = "done", !.result = result]

Step(p, c2, ds2, fs2, log2) ==
    /\ calls' = [calls EXCEPT ![p] = c2]
    /\ dirs' = ds2
    /\ files' = fs2
    /\ oplog' = log2
    /\ UNCHANGED <<cn_vars, sp_vars, xm_vars, cv_vars>>

\* a slip: the empty artboard list is not answered at once (line 27)
export_artboards_dispatch_no_empty_check(c, artboards) ==
    LET has_svg_symbols == \E i \in 1..Len(c.formats) : c.formats[i] = "svg-symbols"
        regular_formats == SelectSeq(c.formats, LAMBDA f : f # "svg-symbols")
        c2 == [c EXCEPT !.listed = TRUE, !.artboards = artboards,
                        !.has_svg_symbols = has_svg_symbols,
                        !.regular_formats = regular_formats]
    IN  IF has_svg_symbols THEN [c2 EXCEPT !.pc = "sym_cache"]
        ELSE IF regular_formats # <<>> THEN [c2 EXCEPT !.pc = "reg_begin"]
        ELSE Return(c2, Ok(<<>>))

\* export_artboards, lines 27-52: the call after list_artboards returned Ok
export_artboards_dispatch(c, artboards) ==
    LET has_svg_symbols == \E i \in 1..Len(c.formats) : c.formats[i] = "svg-symbols"
        regular_formats == SelectSeq(c.formats, LAMBDA f : f # "svg-symbols")
        c2 == [c EXCEPT !.listed = TRUE, !.artboards = artboards,
                        !.has_svg_symbols = has_svg_symbols,
                        !.regular_formats = regular_formats]
    IN  IF artboards = <<>>
        THEN Return([c EXCEPT !.listed = TRUE, !.artboards = artboards], Ok(<<>>))
        ELSE IF has_svg_symbols THEN [c2 EXCEPT !.pc = "sym_cache"]
        ELSE IF regular_formats # <<>> THEN [c2 EXCEPT !.pc = "reg_begin"]
        ELSE Return(c2, Ok(<<>>))

\* export_artboards up to the first export step
export_artboards(p) ==
    LET c == calls[p] IN
    /\ c.pc = "start"
    /\ \/ /\ ~PathExists(dirs, files, c.sketch_file)
          /\ Step(p, Return(c, Err("FileNotFound")), dirs, files, oplog)
       \/ /\ PathExists(dirs, files, c.sketch_file)
          /\ \/ Step(p, Return(c, Err("ExternalToolFailure:list")), dirs, files, oplog)
             \/ Step(p, export_artboards_dispatch(c,
                            list_artboards(c.design, c.glob_patterns)),
                     dirs, files, oplog)

\* ------------------------------------------------ export_svg_symbols

\* lines 60-69: the sprite's path and the cache directory beside it
symbols_target_file(output_path) ==
    IF looks_like_file_path(output_path) THEN output_path
    ELSE Join(output_path, SymbolsFileName)

symbols_cache_dir(target_file) == Join(Parent(target_file), CacheSymbolsName)

\* `let _ = fs::remove_dir_all(cache_dir)`: the call sketch_export.rs makes to
\* drop a cache directory; the history records which function removed it
RemoveEvent(p, cache_dir) == Event("fs::remove_dir_all", p, cache_dir, "unguarded")

\* lines 60-72: resolve the target, create the cache directory
export_svg_symbols_begin(p) ==
    LET c == calls[p]
        target_file == symbols_target_file(c.output_path)
        cache_dir == symbols_cache_dir(target_file)
        c2 == [c EXCEPT !.target_file = target_file, !.cache_dir = cache_dir]
    IN
    /\ c.pc = "sym_cache"
    /\ \/ Step(p, Return(c2, Err("Io:ensure_dir")), dirs, files, oplog)
       \/ /\ CanCreateDirAll(files, cache_dir)
          /\ Step(p, [c2 EXCEPT !.pc = "sym_tool", !.caches = @ \cup {cache_dir}],
                  CreateDirAll(dirs, cache_dir), files,
                  Log(oplog, "ensure_dir", p, cache_dir, ""))

\* lines 74-94: render every artboard as SVG into the cache directory
export_svg_symbols_render(p) ==
    LET c == calls[p]
        invoked(wrote) == Log(oplog, "sketchtool", p, c.cache_dir, ToolRun("svg", c.artboards, wrote))
    IN
    /\ c.pc = "sym_tool"
    /\ \E outcome \in RenderOutcomes(c.artboards, TRUE) :
         \/ /\ outcome.status = "spawn-failed"
            /\ Step(p, Return(c, Err("ExternalToolFailure:spawn")), dirs, files, oplog)
         \/ /\ outcome.status = "exit-failed"
            /\ Step(p, Return(c, Err("ExternalToolFailure:exit")),
                    RemoveDirs(dirs, c.cache_dir), RemoveFiles(files, c.cache_dir),
                    Append(invoked({}), RemoveEvent(p, c.cache_dir)))
         \/ /\ outcome.status = "ok"
            /\ LET rendered == RenderedFiles(c.artboards, "svg", c.cache_dir, outcome)
               IN  Step(p, [c EXCEPT !.pc = "sym_loop", !.idx = 1, !.symbols = <<>>],
                        RenderedDirs(dirs, rendered), rendered @@ files,
                        invoked(DOMAIN rendered))

\* a slip: the file is looked up under the canonicalized name
expected_svg_path_canonical(cache_dir, artboard_name) ==
    Join(cache_dir, canonicalize_name(artboard_name) \o <<".svg">>)

\* find_svg_file_for_artboard: the path the artboard's SVG is expected at
expected_svg_path(cache_dir, artboard_name) == Join(cache_dir, artboard_name \o <<".svg">>)

\* a slip: the rendered file is never found
find_exported_file_in_cache_none(fs, cache_dir, format) == {}

\* a slip: when the expected file is absent another SVG of the cache is taken
find_svg_file_for_artboard_fuzzy(fs, cache_dir, artboard_name) ==
    LET expected_path == expected_svg_path(cache_dir, artboard_name)
        others == FilesWithExt(fs, cache_dir, "svg")
    IN  IF expected_path \in DOMAIN fs THEN Some(expected_path)
        ELSE IF others # {} THEN Some(CHOOSE f \in others : TRUE)
        ELSE None

\* find_svg_file_for_artboard: Ok(the file at the expected path) or Err
find_svg_file_for_artboard(fs, cache_dir, artboard_name) ==
    LET expected_path == expected_svg_path(cache_dir, artboard_name)
    IN  IF expected_path \in DOMAIN fs THEN Some(expected_path) ELSE None

\* lines 98-139, one turn of the loop: the symbol of artboard number idx
export_svg_symbols_convert(p) ==
    LET c == calls[p]
        artboard == c.artboards[c.idx]
        symbol_id == canonicalize_name(artboard.name)
        found == find_svg_file_for_artboard(files, c.cache_dir, artboard.name)
        cleaned(kind) ==
            Step(p, Return(c, Err(kind)),
                 RemoveDirs(dirs, c.cache_dir), RemoveFiles(files, c.cache_dir),
                 Append(oplog, RemoveEvent(p, c.cache_dir)))
    IN
    /\ c.pc = "sym_loop"
    /\ c.idx <= Len(c.artboards)
    /\ \/ /\ found = None
          /\ Step(p, Return(c, Err("MissingExpectedArtifact")), dirs, files, oplog)
       \/ /\ found # None
          /\ \/ Step(p, Return(c, Err("Io:read")), dirs, files, oplog)
             \/ LET svg_content == files[found[1]]
                    symbol == convert_svg_to_symbol(svg_content, symbol_id)
                IN  IF svg_content.blank THEN cleaned("InvalidSvg:empty")
                    ELSE IF symbol = None THEN cleaned("InvalidSvg:convert")
                    ELSE IF SymbolLtCount(symbol[1]) <= 2 THEN cleaned("InvalidSvg:no-inner")
                    ELSE Step(p, [c EXCEPT !.symbols = Append(@, symbol[1]), !.idx = @ + 1],
                              dirs, files, oplog)

\* lines 37-52 of export_artboards: after the symbols, the regular formats
after_symbols(c, symbols_files) ==
    LET c2 == [c EXCEPT !.exported_files = @ \o symbols_files]
    IN  IF c2.regular_formats # <<>> THEN [c2 EXCEPT !.pc = "reg_begin"]
        ELSE Return(c2, Ok(c2.exported_files))

\* lines 141-156: assemble the sprite, write it, drop the cache directory
export_svg_symbols_write(p) ==
    LET c == calls[p]
        symbols_content == build_svg_symbols_file(c.symbols)
        parent == Parent(c.target_file)
    IN
    /\ c.pc = "sym_loop"
    /\ c.idx > Len(c.artboards)
    /\ \/ Step(p, Return(c, Err("Io:ensure_dir")), dirs, files, oplog)
       \/ /\ CanCreateDirAll(files, parent)
          /\ LET ds2 == CreateDirAll(dirs, parent)
                 log2 == Log(oplog, "ensure_dir", p, parent, "")
             IN  \/ Step(p, Return(c, Err("Io:write")), ds2, files, log2)
                 \/ /\ c.target_file \notin ds2
                    /\ Step(p, after_symbols(c, <<c.target_file>>),
                            RemoveDirs(ds2, c.cache_dir),
                            RemoveFiles(WriteFile(files, c.target_file, symbols_content), c.cache_dir),
                            Append(Log(log2, "write", p, c.target_file, symbols_content),
                                   RemoveEvent(p, c.cache_dir)))

\* ------------------------------------------------ export_regular_formats

\* a slip: only the artboard count is validated
single_file_rejected_artboards_only(artboards, formats) == Len(artboards) > 1

\* lines 282-297: a single-file target takes one artboard and one format
single_file_rejected(artboards, formats) == Len(artboards) > 1 \/ Len(formats) > 1

\* lines 278-311: classify the target, validate, create the tool's output directory
export_regular_formats_begin(p) ==
    LET c == calls[p]
        single_file_output == is_single_file_output(c.output_path, c.regular_formats)
        cache == Join(Parent(c.output_path), CacheName)
        output_dir == IF single_file_output THEN cache ELSE c.output_path
        c2 == [c EXCEPT !.single_file_output = single_file_output,
                        !.output_dir = output_dir,
                        !.reg_cache_dir = IF single_file_output THEN Some(cache) ELSE None]
    IN
    /\ c.pc = "reg_begin"
    /\ IF single_file_output /\ single_file_rejected(c.artboards, c.regular_formats)
       THEN Step(p, Return([c EXCEPT !.single_file_output = single_file_output],
                           Err("AmbiguousOutput")), dirs, files, oplog)
       ELSE \/ Step(p, Return(c2, Err("Io:ensure_dir")), dirs, files, oplog)
            \/ /\ CanCreateDirAll(files, output_dir)
               /\ Step(p, [c2 EXCEPT !.pc = "reg_tool", !.fidx = 1, !.reg_exported = <<>>,
                                     !.caches = IF single_file_output THEN @ \cup {cache} ELSE @],
                       CreateDirAll(dirs, output_dir), files,
                       Log(oplog, "ensure_dir", p, output_dir, ""))

\* a slip: the loop over the formats ends after its first turn
next_format_first_only(c, pushed) ==
    LET c2 == [c EXCEPT !.reg_exported = @ \o pushed, !.exported_files = @ \o pushed]
    IN  Return(c2, Ok(c2.exported_files))

\* the end of one turn of the loop over the formats (lines 320-367): the next
\* format, or Ok with the files of both export paths (lines 47-51)
next_format(c, pushed) ==
    LET c2 == [c EXCEPT !.reg_exported = @ \o pushed]
    IN  IF c.fidx < Len(c.regular_formats)
        THEN [c2 EXCEPT !.pc = "reg_tool", !.fidx = @ + 1]
        ELSE LET c3 == [c2 EXCEPT !.exported_files = @ \o c2.reg_exported]
             IN  Return(c3, Ok(c3.exported_files))

\* lines 320-335 and 357-364: render one format; in multi-file mode the
\* exported paths are the artboards' names under the output path
export_regular_formats_render(p) ==
    LET c == calls[p]
        format == c.regular_formats[c.fidx]
        invoked(wrote) == Log(oplog, "sketchtool", p, c.output_dir, ToolRun(format, c.artboards, wrote))
    IN
    /\ c.pc = "reg_tool"
    /\ \E outcome \in RenderOutcomes(c.artboards, FALSE) :
         \/ /\ outcome.status = "spawn-failed"
            /\ Step(p, Return(c, Err("ExternalToolFailure:spawn")), dirs, files, oplog)
         \/ /\ outcome.status = "exit-failed"
            /\ Step(p, Return(c, Err("ExternalToolFailure:exit")), dirs, files, invoked({}))
         \/ /\ outcome.status = "ok"
            /\ LET rendered == RenderedFiles(c.artboards, format, c.output_dir, outcome)
                   ds2 == RenderedDirs(dirs, rendered)
                   fs2 == rendered @@ files
               IN  IF c.reg_cache_dir # None
                   THEN Step(p, [c EXCEPT !.pc = "reg_copy"], ds2, fs2, invoked(DOMAIN rendered))
                   ELSE Step(p, next_format(c,
                                    [i \in 1..Len(c.artboards) |->
                                        RenderPath(c.output_path, c.artboards[i], format)]),
                             ds2, fs2, invoked(DOMAIN rendered))

\* find_exported_file_in_cache: the files list_files("**/*.<format>") can put first
find_exported_file_in_cache(fs, cache_dir, format) == FilesWithExt(fs, cache_dir, format)

\* lines 338-356: single-file mode, copy the rendered file to the target path
\* and drop the cache directory
export_regular_formats_relocate(p) ==
    LET c == calls[p]
        format == c.regular_formats[c.fidx]
        cache == c.reg_cache_dir[1]
        found == find_exported_file_in_cache(files, cache, format)
        target_path == c.output_path
        parent == Parent(target_path)
    IN
    /\ c.pc = "reg_copy"
    /\ \/ /\ found = {}
          /\ Step(p, Return(c, Err("MissingExpectedArtifact")), dirs, files, oplog)
       \/ \E exported_path \in found :
            \/ Step(p, Return(c, Err("Io:ensure_dir")), dirs, files, oplog)
            \/ /\ CanCreateDirAll(files, parent)
               /\ LET ds2 == CreateDirAll(dirs, parent)
                      log2 == Log(oplog, "ensure_dir", p, parent, "")
                  IN  \/ Step(p, Return(c, Err("Io:copy")), ds2, files, log2)
                      \/ /\ target_path \notin ds2
                         /\ Step(p, next_format(c, <<target_path>>),
                                 RemoveDirs(ds2, cache),
                                 RemoveFiles(WriteFile(files, target_path, files[exported_path]), cache),
                                 Append(Log(log2, "copy", p, target_path, exported_path),
                                        RemoveEvent(p, cache)))

\* ------------------------------------------------ the export specification

\* the variables of the pure-function specifications when these are not run
CnIdle == cn_pc = "off" /\ cn_in = <<>> /\ cn_out = <<>> /\ cn_out2 = <<>>
SpIdle == sp_pc = "off" /\ sp_in = <<>> /\ sp_out = <<>>
XmIdle == xm_pc = "off" /\ xm_fn = "" /\ xm_in = <<>> /\ xm_out = <<>>
CvIdle == cv_pc = "off" /\ cv_in = <<>> /\ cv_id = <<>> /\ cv_out = <<>>

\* the output paths a caller gives: a directory, a file whose extension is a
\* rendering format, one in upper case, and a file with an unrelated extension
OutputPaths ==
    { <<"out">>,
      <<"out", "/", "icon", ".svg">>,
      <<"out", "/", "icon", ".PNG">>,
      <<"out", "/", "sheet", ".txt">> }

FormatWords == {"svg-symbols", "svg", "png"}
GlobInputs == {None} \cup {Some({g}) : g \in GlobPool}
SketchFile == <<"design", ".sketch">>

\* the working directory holds the design file, or does not
InitialFiles == {<<>>, (SketchFile :> Content("", "sketch", FALSE, FALSE, <<>>, <<>>))}

Init ==
    /\ dirs = {}
    /\ files \in InitialFiles
    /\ \E design \in InjSeqsUpTo(ArtboardPool, MaxArtboards),
          glob_patterns \in GlobInputs,
          formats \in SeqsUpTo(FormatWords, MaxFormats),
          output_path \in OutputPaths :
         calls = [p \in {"main"} |->
                    NewCall(design, SketchFile, glob_patterns, formats, output_path, dirs, files)]
    /\ oplog = <<>>
    /\ cn_pc = "off" /\ cn_in = <<>> /\ cn_out = <<>> /\ cn_out2 = <<>>
    /\ sp_pc = "off" /\ sp_in = <<>> /\ sp_out = <<>>
    /\ XmIdle /\ CvIdle

Next ==
    \/ \E p \in DOMAIN calls : export_artboards(p)
    \/ \E p \in DOMAIN calls : export_svg_symbols_begin(p)
    \/ \E p \in DOMAIN calls : export_svg_symbols_render(p)
    \/ \E p \in DOMAIN calls : export_svg_symbols_convert(p)
    \/ \E p \in DOMAIN calls : export_svg_symbols_write(p)
    \/ \E p \in DOMAIN calls : export_regular_formats_begin(p)
    \/ \E p \in DOMAIN calls : export_regular_formats_render(p)
    \/ \E p \in DOMAIN calls : export_regular_formats_relocate(p)

Spec == Init /\ [][Next]_vars

\* ------------------------------------------------ one call after another

\* most calls of export_artboards made one after another
MaxCalls == 2

\* what the design file holds at a call, and the formats asked for
RepeatDesigns ==
    {<<ab>> : ab \in ArtboardPool}
    \cup {<<ab1, ab2>> : ab1 \in {ab \in ArtboardPool : ab.uid = "U1"},
                         ab2 \in {ab \in ArtboardPool : ab.uid = "U3"}}
RepeatFormats == {<<"svg">>, <<"svg-symbols">>}
RepeatOutputPaths == {<<"out">>, <<"out", "/", "icon", ".svg">>}

InitRepeat ==
    /\ dirs = {}
    /\ files = (SketchFile :> Content("", "sketch", FALSE, FALSE, <<>>, <<>>))
    /\ \E design \in RepeatDesigns, formats \in RepeatFormats, output_path \in RepeatOutputPaths :
         calls = [p \in {"main"} |->
                    NewCall(design, SketchFile, None, formats, output_path, dirs, files)]
    /\ oplog = <<>>
    /\ CnIdle /\ SpIdle /\ XmIdle /\ CvIdle

\* the caller calls export_artboards once more, for the same output path, on
\* the filesystem the earlier calls left; the history starts over with the call
export_artboards_again(p) ==
    LET c == calls[p] IN
    /\ c.pc = "done"
    /\ c.call_no < MaxCalls
    /\ \E design \in RepeatDesigns, formats \in RepeatFormats :
         Step(p, [NewCall(design, SketchFile, None, formats, c.output_path, dirs, files)
                    EXCEPT !.call_no = c.call_no + 1],
              dirs, files, <<>>)

NextRepeat ==
    \/ Next
    \/ \E p \in DOMAIN calls : export_artboards_again(p)

SpecRepeat == InitRepeat /\ [][NextRepeat]_vars

\* ------------------------------------------------ two calls at once

\* two calls of export_artboards, by two processes, for the same output path:
\* both ask for the sprite in the directory out, or both for one artboard as
\* the file out/icon.svg; each finds one artboard in its design file
RaceCalls == {"A", "B"}
RaceDesigns == {<<ab>> : ab \in {a \in ArtboardPool : a.uid \in {"U1", "U3"}}}
RaceRequests ==
    {[formats |-> <<"svg-symbols">>, output_path |-> <<"out">>],
     [formats |-> <<"svg">>, output_path |-> <<"out", "/", "icon", ".svg">>]}

InitRace ==
    /\ dirs = {}
    /\ files = (SketchFile :> Content("", "sketch", FALSE, FALSE, <<>>, <<>>))
    /\ \E designs \in [RaceCalls -> RaceDesigns], request \in RaceRequests :
         calls = [p \in RaceCalls |->
                    NewCall(designs[p], SketchFile, None, request.formats,
                            request.output_path, dirs, files)]
    /\ oplog = <<>>
    /\ CnIdle /\ SpIdle /\ XmIdle /\ CvIdle

\* the steps of the two calls interleave
SpecRace == InitRace /\ [][Next]_vars

\* ------------------------------------------------ canonicalize_name alone

NoCalls == [p \in {} |-> 0]

InitCanon ==
    /\ calls = NoCalls /\ dirs = {} /\ files = <<>> /\ oplog = <<>>
    /\ cn_pc = "in" /\ cn_in \in SeqsUpTo(Chars, MaxLen) /\ cn_out = <<>> /\ cn_out2 = <<>>
    /\ sp_pc = "off" /\ sp_in = <<>> /\ sp_out = <<>>
    /\ XmIdle /\ CvIdle

\* canonicalize_name(x)
canonicalize_once ==
    /\ cn_pc = "in"
    /\ cn_out' = canonicalize_name(cn_in)
    /\ cn_pc' = "once"
    /\ UNCHANGED <<cn_in, cn_out2, export_vars, sp_vars, xm_vars, cv_vars>>

\* canonicalize_name(canonicalize_name(x))
canonicalize_again ==
    /\ cn_pc = "once"
    /\ cn_out2' = canonicalize_name(cn_out)
    /\ cn_pc' = "twice"
    /\ UNCHANGED <<cn_in, cn_out, export_vars, sp_vars, xm_vars, cv_vars>>

NextCanon == canonicalize_once \/ canonicalize_again

SpecCanon == InitCanon /\ [][NextCanon]_vars

\* ------------------------------------------------ build_svg_symbols_file alone

\* the symbols of the pool's artboards, and one with another viewBox and body
SymbolPool ==
    {convert_svg_to_symbol(RenderedSvg(ab, "ok"), canonicalize_name(ab.name))[1] : ab \in ArtboardPool}
    \cup {Symbol(<<"c">>, "0 0 24 24", <<Element(FALSE, <<>>, "U4", <<>>)>>)}

InitSprite ==
    /\ calls = NoCalls /\ dirs = {} /\ files = <<>> /\ oplog = <<>>
    /\ cn_pc = "off" /\ cn_in = <<>> /\ cn_out = <<>> /\ cn_out2 = <<>>
    /\ sp_pc = "in" /\ sp_in \in SeqsUpTo(SymbolPool, MaxSymbols) /\ sp_out = <<>>
    /\ XmIdle /\ CvIdle

build_sprite ==
    /\ sp_pc = "in"
    /\ sp_out' = build_svg_symbols_file(sp_in)
    /\ sp_pc' = "built"
    /\ UNCHANGED <<sp_in, export_vars, cn_vars, xm_vars, cv_vars>>

NextSprite == build_sprite

SpecSprite == InitSprite /\ [][NextSprite]_vars

\* ------------------------------------------------ transform_nodes_id_attributes alone

\* longest node list given to transform_nodes_id_attributes
MaxXmlNodes == 2

\* the nodes that are not elements, and the id values
XmlLeaves == {Text(<<"t", "/">>), Comment(<<"a", "/", "b">>), CData(<<"/">>),
              ProcessingInstruction(<<"a", "/">>)}
XmlIds == {<<"Z", "/", "7">>, <<"a", "/">>}

\* the elements around a list of children: with and without an id, with and
\* without a value of the other attribute
Shells(children) ==
    {Element(h, IF h THEN id ELSE <<>>, d, children) :
        h \in BOOLEAN, id \in XmlIds, d \in {"", "/p"}}

\* elements of nesting depth 2 and 3: a child with an id beside a node that is
\* not an element, in both orders, and one more element around them
XmlDepth2 ==
    UNION {{Element(TRUE, <<"Z", "/", "7">>, "", <<Element(TRUE, id, "/p", <<>>), leaf>>),
            Element(FALSE, <<>>, "/p", <<leaf, Element(TRUE, id, "", <<>>)>>)} :
                id \in XmlIds, leaf \in {Text(<<"t", "/">>), Comment(<<"a", "/", "b">>)}}
XmlDepth3 ==
    UNION {{Element(FALSE, <<>>, "", <<e>>)} : e \in XmlDepth2}

XmlNodePool == XmlLeaves \cup Shells(<<>>) \cup XmlDepth2 \cup XmlDepth3

InitXml ==
    /\ calls = NoCalls /\ dirs = {} /\ files = <<>> /\ oplog = <<>>
    /\ CnIdle /\ SpIdle /\ CvIdle
    /\ xm_pc = "in" /\ xm_fn \in TransformFns
    /\ xm_in \in SeqsUpTo(XmlNodePool, MaxXmlNodes) /\ xm_out = <<>>

transform_nodes ==
    /\ xm_pc = "in"
    /\ xm_out' = transform_nodes_id_attributes(xm_in, xm_fn)
    /\ xm_pc' = "transformed"
    /\ UNCHANGED <<xm_fn, xm_in, export_vars, cn_vars, sp_vars, cv_vars>>

NextXml == transform_nodes

SpecXml == InitXml /\ [][NextXml]_vars

\* ------------------------------------------------ convert_svg_to_symbol alone

\* longest list of child nodes of a document's root
MaxInner == 2

\* the child nodes of a root: blank and other text, markup that is not an
\* element, elements with and without an id
InnerNodePool ==
    {Text(<<" ">>), Text(<<"t">>), Comment(<<"t">>),
     Element(FALSE, <<>>, "p", <<>>),
     Element(TRUE, <<"a", "/", "b">>, "", <<Element(TRUE, <<"Z", "/", "7">>, "p", <<>>)>>)}

ViewBoxes == {"0 0 16 16", "0 0 24 24 "}

\* the documents: one that does not parse, and the parsed roots with and
\* without a viewBox around every list of child nodes
SvgDocuments ==
    {Content("", "svg", FALSE, FALSE, <<>>, <<>>), Content("", "svg", TRUE, FALSE, <<>>, <<>>)}
    \cup {Content("", "svg", FALSE, TRUE, vb, ch) :
            vb \in {None} \cup {Some(v) : v \in ViewBoxes},
            ch \in SeqsUpTo(InnerNodePool, MaxInner)}

SymbolIds == {<<"a", "-", "b">>, <<>>}

InitConvert ==
    /\ calls = NoCalls /\ dirs = {} /\ files = <<>> /\ oplog = <<>>
    /\ CnIdle /\ SpIdle /\ XmIdle
    /\ cv_pc = "in" /\ cv_in \in SvgDocuments /\ cv_id \in SymbolIds /\ cv_out = <<>>

convert_document ==
    /\ cv_pc = "in"
    /\ cv_out' = convert_svg_to_symbol(cv_in, cv_id)
    /\ cv_pc' = "converted"
    /\ UNCHANGED <<cv_in, cv_id, export_vars, cn_vars, sp_vars, xm_vars>>

NextConvert == convert_document

SpecConvert == InitConvert /\ [][NextConvert]_vars

\* ================================================================ claims

Returned(c) == c.pc = "done"
ToolRuns(p) == {k \in 1..Len(oplog) : oplog[k].op = "sketchtool" /\ oplog[k].proc = p}
Removals == {k \in 1..Len(oplog) : oplog[k].op \in {"fs::remove_dir_all", "safer_delete_dir"}}
SpriteWrites == {k \in 1..Len(oplog) : oplog[k].op = "write"}
NonSymbolFormats(c) == SelectSeq(c.formats, LAMBDA f : f # "svg-symbols")

\* the failures the export's cache clean-up is claimed for: tool exit failure,
\* rendered file not found, unreadable file, empty file, conversion failure,
\* copy failure, write failure
ClaimedFailures ==
    {"ExternalToolFailure:exit", "MissingExpectedArtifact", "Io:read", "InvalidSvg:empty",
     "InvalidSvg:convert", "InvalidSvg:no-inner", "Io:copy", "Io:write"}

\* C1: when an export call has returned, Ok or Err at any of these failures,
\* none of the cache directories it created (.cache-symbols, .cache) exists
\* any more.
C1_CachesGoneAtReturn ==
    \A p \in DOMAIN calls :
        LET c == calls[p]
        IN  (Returned(c) /\ (c.result.status = "ok" \/ c.result.err \in ClaimedFailures))
            => c.caches \cap dirs = {}

\* C2: a call with matched artboards whose destination is a single-file
\* target, with more than one matched artboard or more than one non-symbol
\* format, creates or changes no file and no directory, never runs the
\* rendering tool, and returns an error, whatever the format list (an empty
\* match returns Ok before any validation, see C3).
C2_AmbiguousRejectedUntouched ==
    \A p \in DOMAIN calls :
        LET c == calls[p]
            regular == NonSymbolFormats(c)
        IN  ( /\ c.listed /\ c.artboards # <<>>
              /\ Ext(c.output_path) # ""
              /\ \E i \in 1..Len(regular) : to_lowercase(regular[i]) = to_lowercase(Ext(c.output_path))
              /\ (Len(c.artboards) > 1 \/ Len(regular) > 1) )
            => ( /\ dirs = c.dirs0 /\ files = c.files0
                 /\ ToolRuns(p) = {}
                 /\ Returned(c) => c.result.status = "err" )

\* C3: when no artboard matches the globs the call returns Ok with an empty
\* list, never runs the rendering tool for export and creates no directory
\* and no file.
C3_NoMatchNoWork ==
    \A p \in DOMAIN calls :
        LET c == calls[p]
        IN  (c.listed /\ c.artboards = <<>>)
            => ( /\ Returned(c) /\ c.result = Ok(<<>>)
                 /\ ToolRuns(p) = {}
                 /\ dirs = c.dirs0 /\ files = c.files0 )

C3_Witness ==
    \E p \in DOMAIN calls :
        LET c == calls[p]
        IN  /\ Returned(c) /\ c.listed /\ c.artboards = <<>> /\ c.result.status = "ok"
            /\ c.design # <<>> /\ c.glob_patterns # None
            /\ Len(c.formats) = 2 /\ c.formats[1] = "svg-symbols" /\ c.formats[2] = "png"

\* C4: every removal of a cache directory goes through the Deletion Guard
\* (files.rs safer_delete_dir), on the success path and on the failure paths.
C4_RemovalsThroughGuard ==
    \A k \in Removals : oplog[k].op = "safer_delete_dir"

\* C6: a call that is at the rendering step of the regular formats with a
\* single-file target has exactly one artboard and one non-symbol format.
C6_SingleFileOneToOne ==
    \A p \in DOMAIN calls :
        LET c == calls[p]
        IN  (c.pc \in {"reg_tool", "reg_copy"} /\ c.single_file_output)
            => (Len(c.artboards) = 1 /\ Len(NonSymbolFormats(c)) = 1)

C6_Witness ==
    \E p \in DOMAIN calls :
        LET c == calls[p]
        IN  /\ c.pc = "reg_tool" /\ c.single_file_output
            /\ Ext(c.output_path) = "PNG" /\ c.has_svg_symbols

AsciiLetters == {"a", "b", "c", "Z"}
AsciiDigits == {"7"}

\* C7: canonicalize_name(s) holds only ASCII letters, ASCII digits and
\* dashes, never two dashes in a row, and no dash at either end.
C7_CanonicalShape ==
    cn_pc \in {"once", "twice"} =>
        /\ \A i \in 1..Len(cn_out) : cn_out[i] \in AsciiLetters \cup AsciiDigits \cup {"-"}
        /\ \A i \in 1..(Len(cn_out) - 1) : ~(cn_out[i] = "-" /\ cn_out[i + 1] = "-")
        /\ cn_out # <<>> => (cn_out[1] # "-" /\ cn_out[Len(cn_out)] # "-")

C7_Witness ==
    /\ cn_pc = "once"
    /\ cn_in = <<"/", "a", "e'", "-">>
    /\ cn_out = <<"a">>

\* C8: canonicalize_name is idempotent.
C8_Idempotent == cn_pc = "twice" => cn_out2 = cn_out

C8_Witness ==
    /\ cn_pc = "twice"
    /\ cn_in = <<"-", "a", "/", "7">>
    /\ cn_out = <<"a", "-", "7">>

\* the artwork a symbol's body holds: the d attributes of its elements and
\* the artboard identifiers its text names
RECURSIVE ArtworkOf(_)
ArtworkOf(nodes) ==
    UNION {IF nodes[i].kind = "element"
           THEN (IF nodes[i].d = "" THEN {} ELSE {nodes[i].d}) \cup ArtworkOf(nodes[i].children)
           ELSE {nodes[i].text[k] : k \in 1..Len(nodes[i].text)}
                    \cap {ab.uid : ab \in ArtboardPool}
           : i \in 1..Len(nodes)}

SymbolsIn(content) == SelectSeq(content, LAMBDA item : item.t = "symbol")

\* C9: the sprite a call writes holds one symbol per filtered artboard, in
\* the artboards' order, the i-th with id canonicalize_name(a_i.name) and
\* the artwork of a_i, also when two names canonicalize to the same id.
C9_SpriteFollowsArtboards ==
    \A k \in SpriteWrites :
        LET c == calls[oplog[k].proc]
            syms == SymbolsIn(oplog[k].arg)
        IN  /\ Len(syms) = Len(c.artboards)
            /\ \A i \in 1..Len(syms) :
                 /\ syms[i].symbol.id = canonicalize_name(c.artboards[i].name)
                 /\ ArtworkOf(syms[i].symbol.body) = {c.artboards[i].uid}

C9_Witness ==
    \E k \in SpriteWrites :
        LET c == calls[oplog[k].proc]
            syms == SymbolsIn(oplog[k].arg)
        IN  /\ Len(c.artboards) = 2
            /\ c.artboards[1].name # c.artboards[2].name
            /\ syms[1].symbol.id = syms[2].symbol.id
            /\ Returned(c) /\ c.result.status = "ok"

\* the places k of content where a blank line stands: a line feed right
\* after a line feed
BlankLines(content) ==
    {k \in 2..Len(content) : content[k] = NL /\ content[k - 1] = NL}

\* C10: build_svg_symbols_file gives the wrapper line, the symbols in input
\* order, "</svg>" and a line feed; nothing between the wrapper tags for no
\* symbol; one blank line between two symbols, none before the first and
\* none after the last.
C10_SpriteLayout ==
    sp_pc = "built" =>
        LET n == Len(sp_in)
            out == sp_out
        IN  /\ Len(out) >= 4
            /\ out[1] = SvgOpen /\ out[2] = NL
            /\ out[Len(out) - 1] = SvgClose /\ out[Len(out)] = NL
            /\ SymbolsIn(out) = [i \in 1..n |-> SymbolItem(sp_in[i])]
            /\ n = 0 => out = <<SvgOpen, NL, SvgClose, NL>>
            /\ \A i \in 1..n : out[3 * i] = SymbolItem(sp_in[i]) /\ out[3 * i + 1] = NL
            /\ BlankLines(out) = {3 * i + 2 : i \in 1..(n - 1)}
            /\ Len(out) = IF n = 0 THEN 4 ELSE 3 * n + 3

C10_Witness ==
    /\ sp_pc = "built"
    /\ Len(sp_in) = 3
    /\ sp_in[1] # sp_in[2]
    /\ Cardinality(BlankLines(sp_out)) = 2

\* node `after` is node `before` with every id attribute, at every depth,
\* replaced by transform_fn of its value, and nothing else changed
RECURSIVE IdsMapped(_, _, _)
IdsMapped(before, after, transform_fn) ==
    /\ after.kind = before.kind
    /\ after.d = before.d
    /\ after.text = before.text
    /\ after.has_id = before.has_id
    /\ after.id = IF before.kind = "element" /\ before.has_id
                  THEN call_transform_fn(transform_fn, before.id) ELSE before.id
    /\ Len(after.children) = Len(before.children)
    /\ \A i \in 1..Len(before.children) :
         IdsMapped(before.children[i], after.children[i], transform_fn)

\* C11: transform_nodes_id_attributes(nodes, f) replaces the id attribute by
\* f(old value) on every element at every depth and leaves the other
\* attribute, the text, comment, CDATA and processing-instruction nodes, the
\* number of nodes and the order of the children as they were.
C11_OnlyIdsTransformed ==
    xm_pc = "transformed" =>
        /\ Len(xm_out) = Len(xm_in)
        /\ \A i \in 1..Len(xm_in) : IdsMapped(xm_in[i], xm_out[i], xm_fn)

C11_Witness ==
    /\ xm_pc = "transformed" /\ xm_fn = "canonicalize_name"
    /\ Len(xm_in) = 2
    /\ xm_in[1] \in XmlDepth3 /\ xm_in[2].kind = "cdata"
    /\ xm_in[1].children[1].children[1].kind = "comment"
    /\ xm_in[1].children[1].children[2].id = <<"a", "/">>
    /\ xm_out[1].children[1].children[2].id = <<"a">>
    /\ xm_out[1].children[1].children[2].d = xm_in[1].children[1].children[2].d
\* the child nodes render to nothing but whitespace: each is a text node of
\* whitespace
RendersBlank(children) ==
    \A i \in 1..Len(children) :
        children[i].kind = "text" /\ \A k \in 1..Len(children[i].text) : children[i].text[k] = " "

\* C12: convert_svg_to_symbol(svg, id) is None exactly when the document does
\* not parse, the root has no viewBox, the root has no child node or the
\* inner content renders blank; otherwise it is a symbol with the given id
\* and the root's viewBox as it stands.  A self-closing root, whose inner
\* nodes are an empty sequence and not None, gives None.
C12_NoneExactlyWhenUnusable ==
    cv_pc = "converted" =>
        LET unusable == \/ ~cv_in.parses
                        \/ cv_in.viewBox = None
                        \/ cv_in.children = <<>>
                        \/ RendersBlank(cv_in.children)
        IN  /\ (cv_out = None) <=> unusable
            /\ cv_out # None => (cv_out[1].id = cv_id /\ cv_out[1].viewBox = cv_in.viewBox[1])
            /\ (cv_in.parses /\ cv_in.children = <<>>)
                    => (extract_root_inner_nodes(cv_in) = Some(<<>>) /\ cv_out = None)

C12_Witness ==
    /\ cv_pc = "converted"
    /\ cv_in.parses /\ cv_in.viewBox = Some("0 0 24 24 ") /\ cv_in.children = <<>>
    /\ extract_root_inner_nodes(cv_in) # None
    /\ cv_out = None
\* the one path the rendered SVG of an artboard is read from
ExactSvgPath(c, artboard) == c.cache_dir \o <<"/">> \o artboard.name \o <<".svg">>

\* the call is in the loop of the symbol assembly, at an artboard
AtArtboard(c) == c.pc = "sym_loop" /\ c.idx <= Len(c.artboards)

\* the call failed in the symbol assembly for want of an artboard's file
MissingInAssembly(c) ==
    /\ Returned(c) /\ c.result = Err("MissingExpectedArtifact")
    /\ c.has_svg_symbols /\ c.fidx = 0

\* C13: the symbol assembly reads the SVG of an artboard only at
\* <cache>/<raw name>.svg: with no file there the step fails with the
\* missing-artifact error whatever else the cache holds, a symbol that is
\* added was converted from the file at that path, and a call that failed
\* so has written no sprite.
C13_ExactPathOrFail ==
    /\ [][\A p \in DOMAIN calls :
            LET c == calls[p]
                c2 == calls'[p]
                path == ExactSvgPath(c, c.artboards[c.idx])
            IN  (AtArtboard(c) /\ c2 # c) =>
                    IF path \notin DOMAIN files
                    THEN c2 = Return(c, Err("MissingExpectedArtifact"))
                         /\ files' = files /\ oplog' = oplog
                    ELSE c2.symbols # c.symbols =>
                             c2.symbols = Append(c.symbols,
                                 convert_svg_to_symbol(files[path],
                                     canonicalize_name(c.artboards[c.idx].name))[1])]_vars
    /\ [](\A p \in DOMAIN calls :
            MissingInAssembly(calls[p]) =>
                /\ \A k \in SpriteWrites : oplog[k].proc # p
                /\ calls[p].target_file \notin DOMAIN files \ DOMAIN calls[p].files0)

C13_Witness ==
    \E p \in DOMAIN calls :
        LET c == calls[p]
        IN  /\ MissingInAssembly(c)
            /\ Len(c.artboards) = 2 /\ c.idx = 1
            /\ canonicalize_name(c.artboards[1].name) = canonicalize_name(c.artboards[2].name)
            /\ ExactSvgPath(c, c.artboards[1]) \notin DOMAIN files
            /\ ExactSvgPath(c, c.artboards[2]) \in DOMAIN files
\* the events of call p that copy to the path, and that remove the directory
CopiesTo(p, path) ==
    {k \in 1..Len(oplog) : oplog[k].op = "copy" /\ oplog[k].proc = p /\ oplog[k].path = path}
RemovalsOf(p, dir) ==
    {k \in Removals : oplog[k].proc = p /\ oplog[k].path = dir}

InCache(c, cache) == {f \in DOMAIN files : IsUnder(f, cache)}

\* the call is about to run the rendering tool for the first time
AtFirstRender(c) == c.pc = "sym_tool" \/ (c.pc = "reg_tool" /\ c.fidx = 1)
RenderCache(c) == IF c.pc = "sym_tool" THEN c.cache_dir ELSE c.output_dir

\* C15: the cache directory of a call is fresh: when the call runs the
\* rendering tool the cache directory (.cache-symbols, or .cache in
\* single-file mode) holds nothing an earlier call on the same output path
\* left, so the file single-file mode copies was rendered by this call.
C15_CacheFresh ==
    \A p \in DOMAIN calls :
        LET c == calls[p]
        IN  /\ (AtFirstRender(c) /\ (c.pc = "sym_tool" \/ c.single_file_output))
                    => InCache(c, RenderCache(c)) = {}
            /\ \A k \in CopiesTo(p, c.output_path) :
                    oplog[k].arg = RenderPath(c.output_dir, c.artboards[1], c.regular_formats[1])
\* the formats of the tool runs of call p for the regular formats, in order
RegularRuns(p, c) ==
    SelectSeq(oplog, LAMBDA e : e.op = "sketchtool" /\ e.proc = p /\ e.path = c.output_dir)

Failed(c) == Returned(c) /\ c.result.status = "err"

\* C16: a call that fails at a step does none of the steps after it (no
\* later format is rendered, nothing more is written), returns an error
\* without a list of paths, and the failing step leaves every file outside
\* the call's cache directories as it was.
C16_AbortWithoutRollback ==
    /\ [](\A p \in DOMAIN calls :
            LET c == calls[p]
                runs == RegularRuns(p, c)
            IN  Failed(c) =>
                    /\ c.result.files = <<>>
                    /\ Len(runs) <= c.fidx
                    /\ \A k \in 1..Len(runs) : runs[k].arg.format = c.regular_formats[k]
                    /\ (\E k \in SpriteWrites : oplog[k].proc = p)
                            <=> c.exported_files = <<c.target_file>>)
    /\ [][\A p \in DOMAIN calls :
            LET c == calls[p]
                c2 == calls'[p]
            IN  /\ (~Returned(c) /\ Failed(c2)) =>
                      \A f \in DOMAIN files :
                          (\A cache \in c.caches : ~IsUnder(f, cache))
                              => (f \in DOMAIN files' /\ files'[f] = files[f])
                /\ Failed(c) => (c2 = c /\ files' = files /\ dirs' = dirs /\ oplog' = oplog)]_vars

C16_Witness ==
    \E p \in DOMAIN calls :
        LET c == calls[p]
        IN  /\ Failed(c) /\ c.result.err = "ExternalToolFailure:exit"
            /\ c.formats = <<"svg-symbols", "png">> /\ c.fidx = 1
            /\ c.output_path = <<"out">> /\ Len(c.artboards) = 2
            /\ c.exported_files = <<c.target_file>>
            /\ c.target_file \in DOMAIN files
            /\ files[c.target_file] = build_svg_symbols_file(c.symbols)
            /\ c.result.files = <<>>
\* the tool runs of call p, in order, and the artboard identifiers of a call
RunsOf(p) == SelectSeq(oplog, LAMBDA e : e.op = "sketchtool" /\ e.proc = p)
UidsOf(c) == [i \in 1..Len(c.artboards) |-> c.artboards[i].uid]
FormatsOf(runs) == [k \in 1..Len(runs) |-> runs[k].arg.format]

\* C17: a call that returns Ok with a non-empty artboard list has run the
\* tool once per non-symbol format, in the order of the format list, and
\* once with format svg (into the symbols cache) when 'svg-symbols' is
\* requested; every run was given the identifiers of all the artboards; the
\* runs are one after another in the history.
C17_OneRunPerFormat ==
    \A p \in DOMAIN calls :
        LET c == calls[p]
            runs == RunsOf(p)
            symbol_runs == SelectSeq(runs, LAMBDA e : e.path # c.output_dir)
            regular_runs == SelectSeq(runs, LAMBDA e : e.path = c.output_dir)
            requested == \E i \in 1..Len(c.formats) : c.formats[i] = "svg-symbols"
        IN  (Returned(c) /\ c.result.status = "ok" /\ c.artboards # <<>>) =>
                /\ FormatsOf(regular_runs) = NonSymbolFormats(c)
                /\ FormatsOf(symbol_runs) = IF requested THEN <<"svg">> ELSE <<>>
                /\ \A k \in 1..Len(symbol_runs) :
                     symbol_runs[k].path = symbols_cache_dir(symbols_target_file(c.output_path))
                /\ \A k \in 1..Len(runs) : runs[k].arg.items = UidsOf(c)
                /\ Len(runs) = Len(symbol_runs) + Len(regular_runs)

C17_Witness ==
    \E p \in DOMAIN calls :
        LET c == calls[p]
            runs == RunsOf(p)
        IN  /\ Returned(c) /\ c.result.status = "ok"
            /\ c.formats = <<"png", "svg-symbols">> /\ Len(c.artboards) = 2
            /\ FormatsOf(runs) = <<"svg", "png">>
            /\ runs[2].arg.items = <<"U3", "U1">>
\* the last tool run of call p in the history (0: none), the removals by
\* other calls of a directory after place k, and the runs of other calls
\* before place m that wrote the file
LastRun(p) ==
    LET S == {k \in 1..Len(oplog) : oplog[k].op = "sketchtool" /\ oplog[k].proc = p}
    IN  IF S = {} THEN 0 ELSE CHOOSE k \in S : \A j \in S : j <= k
ForeignRemovalsAfter(p, dir, k) ==
    {r \in Removals : r > k /\ oplog[r].proc # p /\ oplog[r].path = dir}
ForeignRunsBefore(p, file, m) ==
    {j \in 1..(m - 1) : oplog[j].op = "sketchtool" /\ oplog[j].proc # p
                         /\ file \in oplog[j].arg.wrote}

\* the file call c needs next from its cache: the SVG of the artboard the
\* assembly is at, or the one rendering of single-file mode
NeededFile(c) ==
    IF c.fidx = 0 THEN ExactSvgPath(c, c.artboards[c.idx])
    ELSE RenderPath(c.output_dir, c.artboards[1], c.regular_formats[c.fidx])
NeededCache(c) == IF c.fidx = 0 THEN c.cache_dir ELSE c.output_dir

\* C18: two concurrent calls with the same cache directory race on it.  A
\* call whose own run wrote the file it needs fails with a missing artifact
\* only when another call removed the cache directory after that run, and
\* the file single-file mode copies, when it is not the call's own
\* rendering, was written into the cache by a run of another call; the
\* witness is the interleaving in which both happen.
C18_RaceOnSharedCache ==
    \A p \in DOMAIN calls :
        LET c == calls[p]
            k == LastRun(p)
        IN  /\ ( /\ Failed(c) /\ c.result.err = "MissingExpectedArtifact"
                 /\ k > 0 /\ NeededFile(c) \in oplog[k].arg.wrote )
                    => ForeignRemovalsAfter(p, NeededCache(c), k) # {}
            /\ \A m \in CopiesTo(p, c.output_path) :
                    oplog[m].arg # RenderPath(c.output_dir, c.artboards[1], c.regular_formats[1])
                        => ForeignRunsBefore(p, oplog[m].arg, m) # {}

C18_Witness ==
    /\ DOMAIN calls = RaceCalls
    /\ LET a == calls["A"]
           b == calls["B"]
       IN  /\ Failed(a) /\ a.result.err = "MissingExpectedArtifact"
           /\ LastRun("A") > 0 /\ NeededFile(a) \in oplog[LastRun("A")].arg.wrote
           /\ ForeignRemovalsAfter("A", a.output_dir, LastRun("A")) # {}
           /\ Returned(b) /\ b.result.status = "ok"
           /\ a.artboards # b.artboards
           /\ \E m \in CopiesTo("B", b.output_path) :
                 /\ oplog[m].arg = NeededFile(a)
                 /\ files[b.output_path].uid = a.artboards[1].uid
\* the places of the history after place k where call p writes the file:
\* a copy to it, or a tool run that renders it
LaterWrites(p, file, k) ==
    {m \in (k + 1)..Len(oplog) :
        /\ oplog[m].proc = p
        /\ \/ oplog[m].op = "copy" /\ oplog[m].path = file
           \/ oplog[m].op = "sketchtool" /\ file \in oplog[m].arg.wrote}

\* C19: a call that asks for 'svg-symbols' and at least one regular format
\* and returns Ok leaves the sprite at the sprite's path: no later step of
\* the call writes that path, and the returned paths are pairwise distinct,
\* whether the output path is a directory or a file.
C19_SpriteKept ==
    \A p \in DOMAIN calls :
        LET c == calls[p]
            paths == c.result.files
        IN  (Returned(c) /\ c.result.status = "ok" /\ c.has_svg_symbols
                /\ c.regular_formats # <<>>) =>
                /\ \A k \in SpriteWrites :
                     oplog[k].proc = p => LaterWrites(p, c.target_file, k) = {}
                /\ \A i, j \in 1..Len(paths) : i # j => paths[i] # paths[j]
                /\ c.target_file \in DOMAIN files
                /\ files[c.target_file] = build_svg_symbols_file(c.symbols)
\* the body holds a markup node: a node that is not text
HasMarkup(body) == \E i \in 1..Len(body) : body[i].kind # "text"

RefusedSvg == {"InvalidSvg:empty", "InvalidSvg:convert", "InvalidSvg:no-inner"}

\* C20: a sprite is written only when every artboard gave a symbol whose
\* body holds at least one markup node; a call that failed because a
\* rendered SVG was blank, did not convert or gave a symbol without a '<'
\* of its own has written no sprite.
C20_SpriteOnlyWithMarkup ==
    /\ \A k \in SpriteWrites :
         LET syms == SymbolsIn(oplog[k].arg)
         IN  \A i \in 1..Len(syms) : HasMarkup(syms[i].symbol.body)
    /\ \A p \in DOMAIN calls :
         (Failed(calls[p]) /\ calls[p].result.err \in RefusedSvg)
            => (\A k \in SpriteWrites : oplog[k].proc # p)

====
